---- MODULE Spec2Model ----
(***************************************************************************)
(* examples/save_quadratic.py: the script that draws a quadratic dataset   *)
(* (Provider, sdr.datasets.make_quadratic), fits Sliced Average Variance   *)
(* Estimation to it (Estimator, sdr.SlicedAverageVarianceEstimation) and   *)
(* plots the first projected direction with two annotations (Renderer,     *)
(* matplotlib.pyplot).                                                     *)
(*                                                                         *)
(* One action per statement of the script.  Two processes run the script   *)
(* on the same installation, so that run-to-run determinism can be stated. *)
(* Real numbers are fixed-point integers counted in 1/Unit.                *)
(***************************************************************************)
EXTENDS Integers, Sequences, FiniteSets, TLC

VARIABLES
    lib,          \* the installed sdr library: the shapes its defaults produce
    faulty,       \* the display backend rejects the faulty-th pyplot call (0: none)
    pc,           \* pc[r]: the statement process r executes next
    globals,      \* globals[r]: the module namespace of process r (name -> value)
    figs,         \* figs[r]: pyplot's figures of process r, the current one last
    calls,        \* calls[r]: the library calls process r has made, in order
    exit_status,  \* exit_status[r]: -1 while running, then the process status
    stderr        \* stderr[r]: the uncaught exception printed at exit ("" when none)

vars == <<lib, faulty, pc, globals, figs, calls, exit_status, stderr>>

\* ------------------------------------------------------------------ bounds

MaxSamples == 3
MaxFeatures == 3

\* The two processes running the script.
Runs == {"a", "b"}

\* What the operating system may hand numpy when no seed is given.
Entropy == {0, 1}

\* ------------------------------------------------------------ fixed point

Decimals == 3

\* One more digit than the annotation keeps, so that rounding has work to do.
Unit == 10 ^ (Decimals + 1)

FxMul(a, b) == (a * b) \div Unit

Abs(v) == IF v < 0 THEN -v ELSE v

RECURSIVE Sum(_, _)
Sum(f, n) == IF n = 0 THEN 0 ELSE f[n] + Sum(f, n - 1)

\* ------------------------------------------------------------- namespaces

\* A Python namespace is a mapping whose domain is the set of bound names.
Empty == [n \in {} |-> 0]

Bind(ns, name, value) ==
    [n \in DOMAIN ns \cup {name} |-> IF n = name THEN value ELSE ns[n]]

Bound(r, names) == names \subseteq DOMAIN globals[r]

\* --------------------------------------------------------------- numpy

\* M[:, j-1]
Column(M, j) == [i \in 1..Len(M) |-> M[i][j]]

\* M[i-1, :]
Row(M, i) == M[i]

NCols(M) == IF Len(M) = 0 THEN 0 ELSE Len(M[1])

\* np.round(v, Decimals): round half to even, the result still counted in 1/Unit.
Round(v) ==
    LET q == v \div 10
        m == v % 10
        up == m > 5 \/ (m = 5 /\ q % 2 = 1)
    IN  10 * (IF up THEN q + 1 ELSE q)

RoundAll(a) == [i \in 1..Len(a) |-> Round(a[i])]

\* list[:n]
Take(s, n) == SubSeq(s, 1, IF Len(s) < n THEN Len(s) ELSE n)

\* --------------------------------------------------------- str.format

RECURSIVE Digits(_, _)
\* The `width` decimal digits of n, most significant first.
Digits(n, width) ==
    IF width = 0 THEN <<>> ELSE Append(Digits(n \div 10, width - 1), n % 10)

RECURSIVE StripZeros(_)
\* repr of a float prints the shortest fraction, and at least one digit of it.
StripZeros(ds) ==
    IF Len(ds) > 1 /\ ds[Len(ds)] = 0 THEN StripZeros(SubSeq(ds, 1, Len(ds) - 1))
    ELSE ds

\* repr(float): sign, integer part, fraction digits.
Repr(v) ==
    [neg |-> v < 0,
     int |-> Abs(v) \div Unit,
     frac |-> StripZeros(Digits(Abs(v) % Unit, Decimals + 1))]

\* "{0}".format(list): the list's items, each by its repr.
Format(list) == [i \in 1..Len(list) |-> Repr(list[i])]

\* ----------------------------------------------- Provider (sdr.datasets)

Lcg(s) == (s * 75 + 74) % 65537

RECURSIVE Draw(_, _)
\* The k-th number of the generator seeded with `seed`.
Draw(seed, k) == IF k = 0 THEN seed % 65537 ELSE Lcg(Draw(seed, k - 1))

\* Feature j of sample i: a value in [-1.5, 1.5].
Feature(seed, i, j) == (Draw(seed, 8 * i + j) % (3 * Unit + 1)) - (3 * Unit) \div 2

Noise(seed, i) == (Draw(seed, 8 * i) % 1001) - 500

\* y = (x . beta)^2 + noise with beta = (1, 1, 0, ...) / sqrt(2).
Response(seed, i, f) ==
    LET s == Feature(seed, i, 1) + (IF f >= 2 THEN Feature(seed, i, 2) ELSE 0)
    IN  (s * s) \div (2 * Unit) + Noise(seed, i)

\* numpy's check_random_state: an integer random_state is the seed, and
\* without one the seed is drawn from the operating system.
SeedsOf(kwargs) ==
    IF "random_state" \in DOMAIN kwargs THEN {kwargs.random_state} ELSE Entropy

\* The dataset the installed library generates from `seed`.
Dataset(seed) ==
    IF seed < 0 THEN [raised |-> "InputValidationError"]
    ELSE [raised |-> "",
          X |-> [i \in 1..lib.n_samples |->
                    [j \in 1..lib.n_features |-> Feature(seed, i, j)]],
          y |-> [i \in 1..lib.n_targets |-> Response(seed, i, lib.n_features)]]

\* datasets.make_quadratic(**kwargs): what the call may return.  The same
\* seed gives the same (X, y).
make_quadratic(kwargs) == {Dataset(seed) : seed \in SeedsOf(kwargs)}

\* ------------------------------- Estimator (SlicedAverageVarianceEstimation)

\* sdr.SlicedAverageVarianceEstimation(): an unfitted estimator, no
\* components_ attribute yet.
SlicedAverageVarianceEstimation == [n_directions |-> lib.n_directions]

\* The learned directions, one per column, n_features rows: a deterministic
\* function of the data standing for the eigen-decomposition.
Directions(X, y, k) ==
    [i \in 1..NCols(X) |->
        [j \in 1..k |->
            LET m == Sum([s \in 1..Len(X) |-> FxMul(X[s][i], y[s])], Len(X))
            IN  ((m * j + 1234 * i) % (2 * Unit + 1)) - Unit]]

\* X . C
MatMul(X, C) ==
    [s \in 1..Len(X) |->
        [j \in 1..NCols(C) |->
            Sum([i \in 1..Len(C) |-> FxMul(X[s][i], C[i][j])], Len(C))]]

\* est.fit_transform(X, y): the fitted estimator and the projected matrix,
\* or an EstimationError.
fit_transform(est, X, y) ==
    IF Len(X) # Len(y) \/ NCols(X) < 2 THEN [raised |-> "EstimationError"]
    ELSE LET C == Directions(X, y, est.n_directions)
         IN  [raised |-> "",
              self |-> Bind(est, "components_", C),
              value |-> MatMul(X, C)]

\* ---------------------------------------------- Renderer (matplotlib.pyplot)

NewFigure == [collections |-> <<>>, xlabel |-> "", ylabel |-> "",
              texts |-> <<>>, shown |-> 0]

\* plt.gcf(): the figures with a current one, opened when there is none.
Gcf(fs) == IF fs = <<>> THEN <<NewFigure>> ELSE fs

Current(fs) == Gcf(fs)[Len(Gcf(fs))]

\* The nth pyplot call of a process, which leaves the current figure as
\* `fig` unless the display backend rejects it.
Pyplot(fs, nth, fig) ==
    IF faulty = nth THEN [raised |-> "RenderingError"]
    ELSE [raised |-> "", figs |-> [Gcf(fs) EXCEPT ![Len(Gcf(fs))] = fig]]

\* plt.scatter(x, y, c=c, cmap=cmap, linewidth=linewidth)
scatter(fs, nth, x, y, c, cmap, linewidth) ==
    IF Len(x) # Len(y) \/ Len(c) # Len(x) THEN [raised |-> "ValueError"]
    ELSE Pyplot(fs, nth,
            [Current(fs) EXCEPT !.collections =
                Append(@, [x |-> x, y |-> y, c |-> c,
                           cmap |-> cmap, linewidth |-> linewidth])])

\* plt.xlabel(s)
xlabel(fs, nth, s) == Pyplot(fs, nth, [Current(fs) EXCEPT !.xlabel = s])

\* plt.ylabel(s)
ylabel(fs, nth, s) == Pyplot(fs, nth, [Current(fs) EXCEPT !.ylabel = s])

\* plt.annotate(text, xy=xy)
annotate(fs, nth, text, xy) ==
    Pyplot(fs, nth,
        [Current(fs) EXCEPT !.texts = Append(@, [text |-> text, xy |-> xy])])

\* plt.show(): displays every open figure (and opens none).
show(fs, nth) ==
    IF faulty = nth THEN [raised |-> "RenderingError"]
    ELSE [raised |-> "",
          figs |-> [i \in 1..Len(fs) |-> [fs[i] EXCEPT !.shown = @ + 1]]]

RendererCalls == {"scatter", "xlabel", "ylabel", "annotate", "show"}

\* ------------------------------------------------------------- the script

\* The Provider called without a seed.
ProviderArgsUnseeded == Empty

\* line 15: the keyword arguments of the Provider call
ProviderArgs == [random_state |-> 123]

\* The Estimator's statements moved before the Provider's.
StatementsEstimatorFirst ==
    <<"L17", "L18", "L15", "L21", "L23", "L24", "L25", "L28", "L29", "L30",
      "L32", "L34", "EOF">>

\* The second annotation left out.
StatementsOneAnnotation ==
    <<"L15", "L17", "L18", "L21", "L23", "L24", "L25", "L28", "L29", "L30",
      "L34", "EOF">>

\* plt.show() moved before the annotations.
StatementsShowEarly ==
    <<"L15", "L17", "L18", "L21", "L23", "L24", "L25", "L34", "L28", "L29",
      "L30", "L32", "EOF">>

\* lines 15-34: the statements of the script in the order they are written,
\* then the end of the file
Statements ==
    <<"L15", "L17", "L18", "L21", "L23", "L24", "L25", "L28", "L29", "L30",
      "L32", "L34", "EOF">>

\* Straight-line code: each statement is followed by the next one.
Successor(l) ==
    Statements[(CHOOSE i \in 1..Len(Statements) : Statements[i] = l) + 1]

Log(r, fn, args, raised) ==
    [calls EXCEPT ![r] = Append(@, [fn |-> fn, args |-> args, raised |-> raised])]

\* How many pyplot calls process r has made.
PyplotCalls(r) ==
    Cardinality({i \in 1..Len(calls[r]) : calls[r][i].fn \in RendererCalls})

\* The statement completed: on to the next one.
Continue(r) ==
    /\ pc' = [pc EXCEPT ![r] = Successor(pc[r])]
    /\ UNCHANGED <<exit_status, stderr>>

\* The exception caught and dropped, the script going on.
Swallowed(r, exc) == Continue(r)

\* No statement is inside a try: an exception ends the process with status
\* 1 and its traceback on stderr.
Unhandled(r, exc) ==
    /\ pc' = [pc EXCEPT ![r] = "exit"]
    /\ exit_status' = [exit_status EXCEPT ![r] = 1]
    /\ stderr' = [stderr EXCEPT ![r] = exc]

\* fit_transform(X[:-1], y[:-1])
FitArgsDropLast(g) ==
    <<SubSeq(g.X, 1, Len(g.X) - 1), SubSeq(g.y, 1, Len(g.y) - 1)>>

\* X and y cut to the shorter of the two before the call.
FitArgsTruncated(g) ==
    LET n == IF Len(g.X) < Len(g.y) THEN Len(g.X) ELSE Len(g.y)
    IN  <<Take(g.X, n), Take(g.y, n)>>

\* line 18: the arguments of fit_transform, (X, y)
FitArgs(g) == <<g.X, g.y>>

\* X = save.fit_transform(X, y)
BindFitOverX(g, res) == Bind(Bind(g, "save", res.self), "X", res.value)

\* line 18: fit_transform fits `save` in place, and its value is bound to X_save
BindFit(g, res) == Bind(Bind(g, "save", res.self), "X_save", res.value)

\* save.components_[0, :]
FirstDirectionRow(est) == Row(est.components_, 1)

\* line 21: save.components_[:, 0]
FirstDirection(est) == Column(est.components_, 1)

\* line 23: X_save[:, 0]
ScatterX(X_save) == Column(X_save, 1)

\* line 28
BetaText ==
    [prefix |-> "$\\beta_1$ = ",
     items |-> Format(<<(707 * Unit) \div 1000, (707 * Unit) \div 1000>>)]

\* The [:2] left out.
Beta1HatTextAll(beta1_hat) ==
    [prefix |-> "$\\hat{\\beta_1}$ = ",
     items |-> Format(RoundAll(beta1_hat))]

\* lines 30-31
Beta1HatText(beta1_hat) ==
    [prefix |-> "$\\hat{\\beta_1}$ = ",
     items |-> Format(Take(RoundAll(beta1_hat), 2))]

\* line 29: xy=(-1, 2)
BetaXY == <<-1 * Unit, 2 * Unit>>

\* line 32: xy=(-1, 1.75)
Beta1HatXY == <<-1 * Unit, (175 * Unit) \div 100>>

\* X, y = datasets.make_quadratic(random_state=123)
Line15(r) ==
    /\ pc[r] = "L15"
    /\ \E res \in make_quadratic(ProviderArgs) :
        /\ calls' = Log(r, "make_quadratic", ProviderArgs, res.raised)
        /\ IF res.raised # ""
           THEN Unhandled(r, res.raised) /\ UNCHANGED globals
           ELSE /\ globals' = [globals EXCEPT
                                 ![r] = Bind(Bind(@, "X", res.X), "y", res.y)]
                /\ Continue(r)
    /\ UNCHANGED <<lib, faulty, figs>>

\* save = sdr.SlicedAverageVarianceEstimation()
Line17(r) ==
    /\ pc[r] = "L17"
    /\ calls' = Log(r, "SlicedAverageVarianceEstimation", Empty, "")
    /\ globals' = [globals EXCEPT
                     ![r] = Bind(@, "save", SlicedAverageVarianceEstimation)]
    /\ Continue(r)
    /\ UNCHANGED <<lib, faulty, figs>>

\* X_save = save.fit_transform(X, y)
Line18(r) ==
    /\ pc[r] = "L18"
    /\ IF ~Bound(r, {"save", "X", "y"})
       THEN Unhandled(r, "NameError") /\ UNCHANGED <<globals, calls>>
       ELSE LET g == globals[r]
                res == fit_transform(g.save, FitArgs(g)[1], FitArgs(g)[2])
            IN  /\ calls' = Log(r, "fit_transform", Empty, res.raised)
                /\ IF res.raised # ""
                   THEN Unhandled(r, res.raised) /\ UNCHANGED globals
                   ELSE /\ globals' = [globals EXCEPT ![r] = BindFit(@, res)]
                        /\ Continue(r)
    /\ UNCHANGED <<lib, faulty, figs>>

\* beta1_hat = save.components_[:, 0]
Line21(r) ==
    /\ pc[r] = "L21"
    /\ IF ~Bound(r, {"save"})
       THEN Unhandled(r, "NameError") /\ UNCHANGED globals
       ELSE IF "components_" \notin DOMAIN globals[r].save
       THEN Unhandled(r, "AttributeError") /\ UNCHANGED globals
       ELSE /\ globals' = [globals EXCEPT
                             ![r] = Bind(@, "beta1_hat", FirstDirection(@.save))]
            /\ Continue(r)
    /\ UNCHANGED <<lib, faulty, figs, calls>>

\* A pyplot call `fn` that ended as `res`.
PyplotStep(r, fn, res) ==
    /\ calls' = Log(r, fn, Empty, res.raised)
    /\ IF res.raised # ""
       THEN Unhandled(r, res.raised) /\ UNCHANGED figs
       ELSE figs' = [figs EXCEPT ![r] = res.figs] /\ Continue(r)
    /\ UNCHANGED <<lib, faulty, globals>>

\* plt.scatter(X_save[:, 0], y, c=y, cmap='viridis', linewidth=0.5)
Line23(r) ==
    /\ pc[r] = "L23"
    /\ IF ~Bound(r, {"X_save", "y"})
       THEN /\ Unhandled(r, "NameError")
            /\ UNCHANGED <<lib, faulty, globals, figs, calls>>
       ELSE LET g == globals[r]
            IN  PyplotStep(r, "scatter",
                    scatter(figs[r], PyplotCalls(r) + 1, ScatterX(g.X_save),
                            g.y, g.y, "viridis", Unit \div 2))

\* plt.xlabel("$X\hat{\\beta_1}$")
Line24(r) ==
    /\ pc[r] = "L24"
    /\ PyplotStep(r, "xlabel",
            xlabel(figs[r], PyplotCalls(r) + 1, "$X\\hat{\\beta_1}$"))

\* plt.ylabel("y")
Line25(r) ==
    /\ pc[r] = "L25"
    /\ PyplotStep(r, "ylabel", ylabel(figs[r], PyplotCalls(r) + 1, "y"))

\* beta_text = "$\\beta_1$ = " + "{0}".format([0.707, 0.707])
Line28(r) ==
    /\ pc[r] = "L28"
    /\ globals' = [globals EXCEPT ![r] = Bind(@, "beta_text", BetaText)]
    /\ Continue(r)
    /\ UNCHANGED <<lib, faulty, figs, calls>>

\* plt.annotate(beta_text, xy=(-1, 2))
Line29(r) ==
    /\ pc[r] = "L29"
    /\ IF ~Bound(r, {"beta_text"})
       THEN /\ Unhandled(r, "NameError")
            /\ UNCHANGED <<lib, faulty, globals, figs, calls>>
       ELSE PyplotStep(r, "annotate",
                annotate(figs[r], PyplotCalls(r) + 1, globals[r].beta_text, BetaXY))

\* beta1_hat_text = "$\hat{\\beta_1}$ = " + "{0}".format(
\*     np.round(beta1_hat, 3).tolist()[:2])
Line30(r) ==
    /\ pc[r] = "L30"
    /\ IF ~Bound(r, {"beta1_hat"})
       THEN Unhandled(r, "NameError") /\ UNCHANGED globals
       ELSE /\ globals' = [globals EXCEPT
                             ![r] = Bind(@, "beta1_hat_text",
                                         Beta1HatText(@.beta1_hat))]
            /\ Continue(r)
    /\ UNCHANGED <<lib, faulty, figs, calls>>

\* plt.annotate(beta1_hat_text, xy=(-1, 1.75))
Line32(r) ==
    /\ pc[r] = "L32"
    /\ IF ~Bound(r, {"beta1_hat_text"})
       THEN /\ Unhandled(r, "NameError")
            /\ UNCHANGED <<lib, faulty, globals, figs, calls>>
       ELSE PyplotStep(r, "annotate",
                annotate(figs[r], PyplotCalls(r) + 1, globals[r].beta1_hat_text,
                         Beta1HatXY))

\* plt.show()
Line34(r) ==
    /\ pc[r] = "L34"
    /\ PyplotStep(r, "show", show(figs[r], PyplotCalls(r) + 1))

\* The end of the file: the interpreter exits with status 0.
Eof(r) ==
    /\ pc[r] = "EOF"
    /\ pc' = [pc EXCEPT ![r] = "exit"]
    /\ exit_status' = [exit_status EXCEPT ![r] = 0]
    /\ UNCHANGED <<lib, faulty, globals, figs, calls, stderr>>

\* ------------------------------------------------------- specifications

\* The shapes an installation may produce: X is n_samples x n_features, y
\* has n_targets entries, the estimator keeps n_directions directions.
Libs ==
    {l \in [n_samples : 1..MaxSamples, n_features : 1..MaxFeatures,
            n_targets : 1..MaxSamples, n_directions : 1..MaxFeatures] :
        l.n_directions <= l.n_features}

\* The Provider's contract: y has one entry per row of X, and X has at
\* least two columns.
ValidLibs == {l \in Libs : l.n_targets = l.n_samples /\ l.n_features >= 2}

\* The script makes six pyplot calls; the backend may reject any one of them.
FaultPoints == 0..6

InitWith(libs) ==
    /\ lib \in libs
    /\ faulty \in FaultPoints
    /\ pc = [r \in Runs |-> Statements[1]]
    /\ globals = [r \in Runs |-> Empty]
    /\ figs = [r \in Runs |-> <<>>]
    /\ calls = [r \in Runs |-> <<>>]
    /\ exit_status = [r \in Runs |-> -1]
    /\ stderr = [r \in Runs |-> ""]

Init == InitWith(ValidLibs)

\* The boundary scenarios: data of any shape reaches the Estimator.
InitAnyShape == InitWith(Libs)

Step(r) ==
    \/ Line15(r) \/ Line17(r) \/ Line18(r) \/ Line21(r)
    \/ Line23(r) \/ Line24(r) \/ Line25(r)
    \/ Line28(r) \/ Line29(r) \/ Line30(r) \/ Line32(r)
    \/ Line34(r) \/ Eof(r)

Next == \E r \in Runs : Step(r)

Spec == Init /\ [][Next]_vars

SpecAnyShape == InitAnyShape /\ [][Next]_vars

\* ------------------------------------------------------------ properties

Min(a, b) == IF a < b THEN a ELSE b

IsPrefix(s, t) == Len(s) <= Len(t) /\ \A i \in 1..Len(s) : s[i] = t[i]

\* The library calls of a complete run, stage by stage: Provider, Estimator
\* (constructed, then fitted), Renderer.
StageCalls ==
    <<"make_quadratic", "SlicedAverageVarianceEstimation", "fit_transform",
      "scatter", "xlabel", "ylabel", "annotate", "annotate", "show">>

CallNames(r) == [i \in 1..Len(calls[r]) |-> calls[r][i].fn]

Raised(r) == {i \in 1..Len(calls[r]) : calls[r][i].raised # ""}

\* Every scatter collection of every figure of process r.
Scatters(r) ==
    UNION {{figs[r][i].collections[j] : j \in 1..Len(figs[r][i].collections)} :
            i \in 1..Len(figs[r])}

\* Every annotation of every figure of process r.
Texts(r) ==
    UNION {{figs[r][i].texts[j] : j \in 1..Len(figs[r][i].texts)} :
            i \in 1..Len(figs[r])}

Shown(r) == \E i \in 1..Len(figs[r]) : figs[r][i].shown > 0

\* C1: in every run the calls made so far are an initial part of Provider,
\* Estimator, Renderer in that order, each made once; a call is made only
\* after every earlier one has returned; a run that exits with status 0 has
\* made them all.
C1_StagesInOrderOnce ==
    \A r \in Runs :
        /\ IsPrefix(CallNames(r), StageCalls)
        /\ \A i \in Raised(r) : i = Len(calls[r])
        /\ exit_status[r] = 0 => Len(calls[r]) = Len(StageCalls)

C1_Witness ==
    \E r \in Runs : exit_status[r] = 0 /\ Len(calls[r]) = Len(StageCalls)

\* C2: once a call of any stage has raised, it is the last call the process
\* made, the process has exited with a non-zero status and the exception on
\* stderr, and no figure was displayed; status 0 is reached only after show
\* has returned, with no call having raised.
C2_FailureTerminates ==
    \A r \in Runs :
        /\ Raised(r) # {} =>
            /\ Raised(r) = {Len(calls[r])}
            /\ pc[r] = "exit"
            /\ exit_status[r] > 0
            /\ stderr[r] = calls[r][Len(calls[r])].raised
            /\ ~Shown(r)
        /\ exit_status[r] = 0 =>
            /\ Raised(r) = {}
            /\ stderr[r] = ""
            /\ calls[r] # <<>>
            /\ calls[r][Len(calls[r])].fn = "show"
            /\ Shown(r)

\* A Renderer call failed on a figure that was already drawn on.
C2_Witness ==
    \E r \in Runs :
        /\ stderr[r] = "RenderingError"
        /\ exit_status[r] = 1
        /\ \E s \in Scatters(r) : TRUE

\* C3: y has as many entries as X has rows, X_save has as many rows as X,
\* and the x, y and colour sequences of the scatter call all have that
\* length.
C3_RowCountsAgree ==
    \A r \in Runs :
        LET g == globals[r]
        IN  /\ "X" \in DOMAIN g => "y" \in DOMAIN g /\ Len(g.y) = Len(g.X)
            /\ "X_save" \in DOMAIN g => Len(g.X_save) = Len(g.X)
            /\ \A s \in Scatters(r) :
                /\ Len(s.x) = Len(g.X)
                /\ Len(s.y) = Len(s.x)
                /\ Len(s.c) = Len(s.x)

\* The scatter drawn from a projection whose row and column counts differ.
C3_Witness ==
    \E r \in Runs :
        /\ Scatters(r) # {}
        /\ Len(globals[r].X_save) > 1
        /\ NCols(globals[r].X_save) # Len(globals[r].X_save)

\* C4: with a working display the run with seed 123 raises nothing, and a
\* run that exits with status 0 leaves one figure with exactly two
\* annotations, one at (-1, 2) and one at (-1, 1.75).
C4_TwoAnnotations ==
    \A r \in Runs :
        /\ faulty = 0 => exit_status[r] <= 0 /\ Raised(r) = {}
        /\ exit_status[r] = 0 =>
            /\ Len(figs[r]) = 1
            /\ Len(figs[r][1].texts) = 2
            /\ {figs[r][1].texts[i].xy : i \in 1..2} =
                 {<<-1 * Unit, 2 * Unit>>, <<-1 * Unit, (7 * Unit) \div 4>>}

C4_Witness ==
    \E r \in Runs :
        /\ exit_status[r] = 0
        /\ calls[r][1].args.random_state = 123
        /\ Len(figs[r][1].texts) = 2

\* C5: when the y handed to the Estimator has another row count than X, or
\* X has fewer than 2 columns, the run ends in fit_transform with an
\* EstimationError: no X_save is bound, no figure is opened and no Renderer
\* call is made.
C5_ShapeMismatchRejected ==
    \A r \in Runs :
        LET g == globals[r]
        IN  ( /\ "X" \in DOMAIN g
              /\ Len(g.X) # Len(g.y) \/ NCols(g.X) < 2
              /\ pc[r] \notin {"L17", "L18"} ) =>
                /\ pc[r] = "exit"
                /\ exit_status[r] = 1
                /\ stderr[r] = "EstimationError"
                /\ calls[r][Len(calls[r])] =
                     [fn |-> "fit_transform", args |-> Empty,
                      raised |-> "EstimationError"]
                /\ "X_save" \notin DOMAIN g
                /\ figs[r] = <<>>
                /\ PyplotCalls(r) = 0

\* fit_transform has rejected an X with enough columns and more rows than y.
C5_Witness ==
    \E r \in Runs :
        /\ stderr[r] = "EstimationError"
        /\ Len(globals[r].X) > Len(globals[r].y)
        /\ NCols(globals[r].X) >= 2

\* C6: every Provider call passes random_state=123; two runs that both hold
\* a dataset hold the same X and the same y; and of the two runs' sequences
\* of calls and outcomes one is an initial part of the other.
C6_Deterministic ==
    /\ \A r \in Runs : \A i \in 1..Len(calls[r]) :
        calls[r][i].fn = "make_quadratic" =>
            /\ "random_state" \in DOMAIN calls[r][i].args
            /\ calls[r][i].args.random_state = 123
    /\ \A r1 \in Runs, r2 \in Runs :
        /\ ("X" \in DOMAIN globals[r1] /\ "X" \in DOMAIN globals[r2]) =>
            /\ globals[r1].X = globals[r2].X
            /\ globals[r1].y = globals[r2].y
        /\ IsPrefix(calls[r1], calls[r2]) \/ IsPrefix(calls[r2], calls[r1])
        /\ (pc[r1] = "exit" /\ pc[r2] = "exit") =>
            /\ calls[r1] = calls[r2]
            /\ exit_status[r1] = exit_status[r2]

\* Two different processes have both run to the end.
C6_Witness ==
    \E r1 \in Runs, r2 \in Runs :
        /\ r1 # r2
        /\ pc[r1] = "exit" /\ pc[r2] = "exit"
        /\ "X" \in DOMAIN globals[r1] /\ "X" \in DOMAIN globals[r2]

\* C7: beta1_hat has one entry per column of X.
C7_DirectionLength ==
    \A r \in Runs :
        "beta1_hat" \in DOMAIN globals[r] =>
            Len(globals[r].beta1_hat) = NCols(globals[r].X)

\* beta1_hat taken from a direction matrix that is not square.
C7_Witness ==
    \E r \in Runs :
        /\ "beta1_hat" \in DOMAIN globals[r]
        /\ NCols(globals[r].save.components_) # Len(globals[r].save.components_)

Data == {"X", "y", "X_save", "beta1_hat"}

\* C8: X, y, X_save and beta1_hat, once bound, keep their value in every
\* later step, and the y and colours of the scatter call are the y the
\* Provider returned.
C8_WrittenOnce ==
    /\ [][\A r \in Runs : \A n \in Data \cap DOMAIN globals[r] :
            n \in DOMAIN globals'[r] /\ globals'[r][n] = globals[r][n]]_vars
    /\ [](\A r \in Runs : \A s \in Scatters(r) :
            s.y = globals[r].y /\ s.c = globals[r].y)

C8_Witness ==
    \E r \in Runs :
        /\ Data \subseteq DOMAIN globals[r]
        /\ Scatters(r) # {}
        /\ exit_status[r] = 0

\* 0.707 as repr prints it.
Literal707 == [neg |-> FALSE, int |-> 0, frac |-> <<7, 0, 7>>]

\* C9: the annotation at (-1, 2) shows [0.707, 0.707] whatever the data and
\* the directions are; the annotation at (-1, 1.75) shows the first two
\* entries of beta1_hat rounded to 3 decimals, and no more than two.
C9_AnnotationTexts ==
    \A r \in Runs : \A t \in Texts(r) :
        /\ t.xy = <<-1 * Unit, 2 * Unit>> =>
            t.text.items = <<Literal707, Literal707>>
        /\ t.xy = <<-1 * Unit, (7 * Unit) \div 4>> =>
            LET b == globals[r].beta1_hat
            IN  /\ Len(t.text.items) = Min(2, Len(b))
                /\ \A i \in 1..Len(t.text.items) :
                    t.text.items[i] = Repr(Round(b[i]))

\* Both annotations placed when beta1_hat has more than two entries.
C9_Witness ==
    \E r \in Runs :
        /\ Cardinality(Texts(r)) = 2
        /\ Len(globals[r].beta1_hat) > 2

\* C10: show is called at most once and is the last call of the run; a
\* displayed figure carries the scatter, both axis labels and both
\* annotations and was displayed once; a figure exists only after
\* fit_transform has returned, and there is never more than one.
C10_ShowLast ==
    \A r \in Runs :
        /\ \A i \in 1..Len(calls[r]) :
            calls[r][i].fn = "show" => i = Len(calls[r])
        /\ \A i \in 1..Len(figs[r]) :
            /\ figs[r][i].shown <= 1
            /\ figs[r][i].shown = 1 =>
                /\ Len(figs[r][i].collections) = 1
                /\ figs[r][i].xlabel # ""
                /\ figs[r][i].ylabel # ""
                /\ Len(figs[r][i].texts) = 2
        /\ Len(figs[r]) <= 1
        /\ figs[r] # <<>> =>
            /\ "X_save" \in DOMAIN globals[r]
            /\ \E i \in 1..Len(calls[r]) :
                calls[r][i].fn = "fit_transform" /\ calls[r][i].raised = ""

C10_Witness ==
    \E r \in Runs : Shown(r) /\ pc[r] \in {"EOF", "exit"}
====
